---- MODULE Spec2Model ----
(***************************************************************************)
(* Model of src/spigot_creator.py (class SpigotServerCreator and main):    *)
(* the cache directory, the servers directory, config.json, artifact       *)
(* acquisition (pre-built downloads, BuildTools build, bukkit and vanilla  *)
(* downloads), server provisioning (create_server with its scaffold        *)
(* tasks), remove_server, the configuration methods and the command line.  *)
(*                                                                         *)
(* One behaviour is one call of a public method, or one run of main,       *)
(* started from a disk state that earlier runs can have left behind.  The  *)
(* network, the subprocesses, the file system and the user are the         *)
(* environment: each request, process exit, removal and prompt answer      *)
(* picks its outcome nondeterministically.                                 *)
(***************************************************************************)
EXTENDS Integers, Sequences, FiniteSets, TLC

\* ------------------------------------------------------------------ bounds
\* Number of clock steps the build subprocess may be observed running.
MaxTicks == 3

\* --------------------------------------------------------- program constants
MinJarSize == 1024 * 1024
BuildTimeout == 1800
DefaultUpdateInterval == 86400
QuickModeFactor == 7

Names == {"alpha"}
Versions == {"1.20.4", "1.7.10"}
ServerTypes == {"spigot", "bukkit", "vanilla"}

\* keys of the prebuilt_urls table
KnownPrebuiltVersions == {"1.21.4", "1.21.3", "1.20.4", "1.19.4", "1.18.2"}

SUPPORTED_BUKKIT_VERSIONS ==
    {"1.21.4", "1.21.3", "1.21.2", "1.21.1", "1.21",
     "1.20.6", "1.20.5", "1.20.4", "1.20.3", "1.20.2", "1.20.1", "1.20",
     "1.19.4", "1.19.3", "1.19.2", "1.19.1", "1.19",
     "1.18.2", "1.18.1", "1.18", "1.17.1", "1.17",
     "1.16.5", "1.16.4", "1.16.3", "1.16.2", "1.16.1",
     "1.15.2", "1.15.1", "1.15",
     "1.14.4", "1.14.3", "1.14.2", "1.14.1", "1.14",
     "1.13.2", "1.13.1", "1.13", "1.12.2", "1.12.1", "1.12",
     "1.11.2", "1.11.1", "1.11", "1.10.2", "1.10",
     "1.9.4", "1.9.2", "1.9", "1.8.8"}

\* ------------------------------------------------------------- JSON values
\* What json.loads builds and json.dump writes: a boolean, a number, a string
\* or null.  Every value has the same fields, so any two can be compared.
JBool(x) == [type |-> "bool", b |-> x, n |-> 0, s |-> ""]
JNum(x) == [type |-> "number", b |-> FALSE, n |-> x, s |-> ""]
JStr(x) == [type |-> "string", b |-> FALSE, n |-> 0, s |-> x]
JNull == [type |-> "null", b |-> FALSE, n |-> 0, s |-> ""]

\* The decimal numerals the model knows, with the numbers they denote.
Numerals ==
    {<<"0", 0>>, <<"1", 1>>, <<"25565", 25565>>, <<"25566", 25566>>,
     <<"86400", DefaultUpdateInterval>>, <<"-86400", 0 - DefaultUpdateInterval>>}

\* json.dumps of a value: true/false, null, the numeral, the quoted string.
json_dumps(v) ==
    CASE v.type = "bool" -> IF v.b THEN "true" ELSE "false"
      [] v.type = "null" -> "null"
      [] v.type = "number" -> (CHOOSE p \in Numerals : p[2] = v.n)[1]
      [] OTHER -> "\"" \o v.s \o "\""

\* The strings the model knows to be JSON texts: the literals, the numerals
\* and the quoted strings.  Any other string is not valid JSON.
JsonStrings == {"true", "4G", "java", "2G", "y"}
JsonTexts ==
    {<<"true", JBool(TRUE)>>, <<"false", JBool(FALSE)>>, <<"null", JNull>>}
    \cup {<<p[1], JNum(p[2])>> : p \in Numerals}
    \cup {<<"\"" \o x \o "\"", JStr(x)>> : x \in JsonStrings}

\* json.loads of a string: the value, or JSONDecodeError.
json_loads(text) ==
    IF \E p \in JsonTexts : p[1] = text
    THEN [ok |-> TRUE, value |-> (CHOOSE p \in JsonTexts : p[1] = text)[2]]
    ELSE [ok |-> FALSE, value |-> JNull]

\* The truth value Python gives a JSON value in `if self.config.get(...)`.
truthy(v) ==
    CASE v.type = "bool" -> v.b
      [] v.type = "number" -> v.n # 0
      [] v.type = "string" -> v.s # ""
      [] OTHER -> FALSE

\* dict.get(key, default)
get(cfg, key, default) == IF key \in DOMAIN cfg THEN cfg[key] ELSE default

default_config ==
    [java_path |-> JStr("java"),
     default_memory |-> JStr("2G"),
     default_port |-> JNum(25565),
     buildtools_update_interval |-> JNum(DefaultUpdateInterval),
     use_prebuilt_spigot |-> JBool(TRUE),
     parallel_downloads |-> JBool(TRUE),
     skip_java_check |-> JBool(FALSE),
     quick_mode |-> JBool(FALSE)]

\* The settings the methods read.
quick_mode(cfg) == truthy(get(cfg, "quick_mode", JBool(FALSE)))
use_prebuilt_spigot(cfg) == truthy(get(cfg, "use_prebuilt_spigot", JBool(TRUE)))
skip_java_check(cfg) == truthy(get(cfg, "skip_java_check", JBool(FALSE)))

\* ------------------------------------------------------------- file system
\* A directory is a function from the names of its entries to their contents.
Exists(d, k) == k \in DOMAIN d
Put(d, k, f) == [x \in (DOMAIN d) \cup {k} |-> IF x = k THEN f ELSE d[x]]
Unlink(d, k) == [x \in (DOMAIN d) \ {k} |-> d[x]]
Move(d, src, dst) == Put(Unlink(d, src), dst, d[src])
EmptyDir == [x \in {} |-> 0]

\* cache file names
BuildToolsJar == "BuildTools.jar"
BuildToolsBackup == "BuildTools.jar.backup"
SpigotJar(version) == "spigot-" \o version \o ".jar"
BukkitJar(version) == "bukkit-" \o version \o ".jar"
VanillaJar(version) == "minecraft_server." \o version \o ".jar"
ArtifactKeys ==
    {SpigotJar(v) : v \in Versions} \cup {BukkitJar(v) : v \in Versions}
        \cup {VanillaJar(v) : v \in Versions}

\* A cache file: where its bytes came from, its size, whether the write that
\* produced it was cut short, and its age (now - st_mtime) in seconds.
CacheFile(payload, size, partial, age) ==
    [payload |-> payload, size |-> size, partial |-> partial, age |-> age]

\* Sizes a response body (or a built jar) may have: at and above the 1 MiB mark.
DownloadSizes == {MinJarSize, MinJarSize + 1}
DownloadOutcomes == {"ok", "refused", "partial"}

\* download_file_parallel: "refused" raises before the file is opened,
\* "partial" raises after open(output_path, 'wb') and some chunks.
download_file_parallel(c, key, outcome, size) ==
    CASE outcome = "refused" -> c
      [] outcome = "partial" -> Put(c, key, CacheFile("new", size, TRUE, 0))
      [] OTHER -> Put(c, key, CacheFile("new", size, FALSE, 0))

\* A check that uses the configured interval in quick mode as well.
should_update_buildtools_undamped(c, cfg) ==
    IF ~Exists(c, BuildToolsJar) THEN TRUE
    ELSE c[BuildToolsJar].age > cfg["buildtools_update_interval"].n

\* should_update_buildtools, lines 162-175.
should_update_buildtools(c, cfg) ==
    IF ~Exists(c, BuildToolsJar) THEN TRUE
    ELSE LET update_interval ==
                 IF quick_mode(cfg)
                 THEN cfg["buildtools_update_interval"].n * QuickModeFactor
                 ELSE cfg["buildtools_update_interval"].n
         IN c[BuildToolsJar].age > update_interval

\* A refresh that deletes the existing binary instead of keeping it.
backup_existing_deleted(c) ==
    IF Exists(c, BuildToolsJar) THEN Unlink(c, BuildToolsJar) ELSE c

\* download_buildtools, lines 318-320: keep the existing binary as the backup.
backup_existing(c) ==
    IF Exists(c, BuildToolsJar) THEN Move(c, BuildToolsJar, BuildToolsBackup) ELSE c

\* download_buildtools, lines 328-335: after a failed download, put the backup
\* back (raised = FALSE) or, without a backup, raise.
restore_backup(c) ==
    IF Exists(c, BuildToolsBackup)
    THEN [cache |-> Move(c, BuildToolsBackup, BuildToolsJar), raised |-> FALSE]
    ELSE [cache |-> c, raised |-> TRUE]

\* download_buildtools(force_update) with the outcome of its one download:
\* the cache afterwards, whether it raised, whether it went to the network.
download_buildtools(c, cfg, force_update, outcome) ==
    IF Exists(c, BuildToolsJar) /\ ~force_update /\ ~should_update_buildtools(c, cfg)
    THEN [cache |-> c, raised |-> FALSE, fetched |-> FALSE]
    ELSE LET c1 == backup_existing(c)
             c2 == download_file_parallel(c1, BuildToolsJar, outcome, MinJarSize + 1)
         IN IF outcome = "ok"
            THEN [cache |-> c2, raised |-> FALSE, fetched |-> TRUE]
            ELSE [cache |-> restore_backup(c2).cache,
                  raised |-> restore_backup(c2).raised,
                  fetched |-> TRUE]

\* try_download_prebuilt_spigot, lines 270-285: the URLs in the order tried.
prebuilt_urls(version) ==
    IF version \in KnownPrebuiltVersions THEN <<"known:cdn.getbukkit.org">> ELSE <<>>
alternative_urls ==
    <<"download.getbukkit.org", "cdn.getbukkit.org", "hub.spigotmc.org/browse">>

\* The known URL put after the alternatives.
all_urls_known_last(version) == alternative_urls \o prebuilt_urls(version)

\* lines 284-285: the known URL, if any, then the alternatives.
all_urls(version) == prebuilt_urls(version) \o alternative_urls

\* A size check that lets a file of exactly 1 MiB through.
size_accepted_at_least(size) == size >= MinJarSize

\* try_download_prebuilt_spigot, line 292: the minimum-size check.
size_accepted(size) == size > MinJarSize

\* A loop that looks at the result only after its last URL.
prebuilt_step_no_early_return(validated, idx, n) ==
    IF idx < n THEN "next" ELSE IF validated THEN "return" ELSE "exhausted"

\* try_download_prebuilt_spigot, lines 287-303: what the loop does after one
\* URL: return the jar, go to the next URL, or fall out of the loop.
prebuilt_step(validated, idx, n) ==
    IF validated THEN "return" ELSE IF idx = n THEN "exhausted" ELSE "next"

\* A workspace removed by hand at the end of the successful path only.
workspace_removed_on_success_only(how) == how \notin {"jar", "jar_other_name"}

\* build_spigot_optimized, line 435: the TemporaryDirectory context manager
\* removes the workspace on every way out of the with block.
workspace_after_exit(how) == FALSE

BuildOutcomes == {"nonzero_exit", "no_jar", "jar", "jar_other_name", "copy_failed"}

\* ------------------------------------------------------------------- state
VARIABLES
    config,      \* self.config
    servers,     \* servers_dir: server name -> directory (entry -> content)
    cache,       \* cache_dir: file name -> cache file
    pc,          \* where the running call is
    op,          \* the public method that was called
    args,        \* its arguments
    urlIdx,      \* try_download_prebuilt_spigot: index into all_urls
    jarPath,     \* the cache file the acquisition returned ("" if none)
    workspace,   \* whether the build's temporary directory exists
    clock,       \* seconds the build subprocess has been running
    tasks,       \* create_files_parallel: task -> "idle"|"pending"|"ok"|"failed"
    log,         \* network requests, subprocesses started and prompt answers, in order
    accepted,    \* position in log of the request whose artifact was validated
    failures,    \* the failure of each strategy that failed, in order
    error,       \* the entries the raised exception carries
    servers0,    \* servers at the start of the call
    cache0,      \* cache at the start of the call
    retval,      \* what the call returned: "none" | "True" | "False"
    warnings,    \* create_files_parallel: the tasks whose failure was printed
    configFile,  \* config.json: its kind and, for an object, each key's JSON text
    argv,        \* main: the command line
    mainPc,      \* main: "off" when a method is called directly, else its position
    exitCode,    \* main: the exit status of the process, -1 while it runs
    uncaught,    \* main: the process ended with an exception nobody caught
    handled      \* main: the command branch that ran

vars == <<config, servers, cache, pc, op, args, urlIdx, jarPath, workspace, clock,
          tasks, log, accepted, failures, error, servers0, cache0, retval,
          warnings, configFile, argv, mainPc, exitCode, uncaught, handled>>

\* What main and the configuration methods keep.
cliVars == <<configFile, argv, mainPc, exitCode, uncaught, handled>>

TaskNames == {"server_properties", "eula", "start_script", "server_info",
              "readme", "directories"}

NoArgs == [name |-> "", version |-> "", type |-> "", force_overwrite |-> FALSE,
           force_rebuild |-> FALSE, force_update |-> FALSE, force |-> FALSE]

\* sys.argv as argparse reads it: the command, its sub-action and arguments.
NoArgv == [command |-> "", action |-> "", name |-> "", version |-> "", type |-> "",
           force_rebuild |-> FALSE, key |-> "", value |-> ""]

\* json.dump / json.load of a dictionary, key by key.
json_dump_obj(cfg) == [k \in DOMAIN cfg |-> json_dumps(cfg[k])]
json_load_obj(text) == [k \in DOMAIN text |-> json_loads(text[k]).value]
ConfigObject(cfg) == [kind |-> "object", text |-> json_dump_obj(cfg)]

\* A function returns its cache path / raises.
Return(key) ==
    /\ jarPath' = key
    /\ pc' = IF op = "create_server" THEN "copy_jar" ELSE "done"
Raise(msg) ==
    /\ pc' = "failed"
    /\ error' = <<msg>>

\* ------------------------------------------------- build_spigot_optimized
\* lines 416-425: the cache fast path, else the pre-built download.
BuildSpigotEntry ==
    /\ pc = "build_spigot"
    /\ IF Exists(cache, SpigotJar(args.version)) /\ ~args.force_rebuild
       THEN Return(SpigotJar(args.version)) /\ UNCHANGED urlIdx
       ELSE /\ IF use_prebuilt_spigot(config)
               THEN pc' = "prebuilt" /\ urlIdx' = 1
               ELSE pc' = "java_check" /\ UNCHANGED urlIdx
            /\ UNCHANGED jarPath
    /\ UNCHANGED <<retval, warnings, cliVars>>
    /\ UNCHANGED <<config, servers, cache, op, args, workspace, clock, tasks, log,
                   accepted, failures, error, servers0, cache0>>

\* try_download_prebuilt_spigot, one turn of the loop of lines 287-301.
TryPrebuiltUrl ==
    /\ pc = "prebuilt"
    /\ \E outcome \in DownloadOutcomes, size \in DownloadSizes :
         LET key == SpigotJar(args.version)
             urls == all_urls(args.version)
             c1 == download_file_parallel(cache, key, outcome, size)
             validated == outcome = "ok" /\ size_accepted(c1[key].size)
             step == prebuilt_step(validated, urlIdx, Len(urls))
         IN /\ log' = Append(log, urls[urlIdx])
            /\ IF validated
               THEN /\ cache' = c1
                    /\ accepted' = IF accepted = 0 THEN Len(log) + 1 ELSE accepted
                    /\ UNCHANGED failures
               ELSE /\ cache' = IF Exists(c1, key) THEN Unlink(c1, key) ELSE c1
                    /\ failures' = Append(failures, urls[urlIdx])
                    /\ UNCHANGED accepted
            /\ CASE step = "return" -> Return(key) /\ UNCHANGED urlIdx
                 [] step = "next" -> urlIdx' = urlIdx + 1 /\ UNCHANGED <<pc, jarPath>>
                 [] OTHER -> pc' = "java_check" /\ UNCHANGED <<urlIdx, jarPath>>
    /\ UNCHANGED <<retval, warnings, cliVars>>
    /\ UNCHANGED <<config, servers, op, args, workspace, clock, tasks, error,
                   servers0, cache0>>

\* check_java_version (lines 90-129) as called at lines 429-430.
JavaCheck ==
    /\ pc = "java_check"
    /\ IF skip_java_check(config)
       THEN pc' = "buildtools" /\ UNCHANGED <<log, failures, error>>
       ELSE \E ok \in BOOLEAN :
              /\ log' = Append(log, "java -version")
              /\ IF ok
                 THEN pc' = "buildtools" /\ UNCHANGED <<failures, error>>
                 ELSE /\ Raise("Java check failed")
                      /\ failures' = Append(failures, "Java check failed")
    /\ UNCHANGED <<retval, warnings, cliVars>>
    /\ UNCHANGED <<config, servers, cache, op, args, urlIdx, jarPath, workspace,
                   clock, tasks, accepted, servers0, cache0>>

\* download_buildtools, lines 305-335, called at line 432 or directly.
DownloadBuildtools ==
    /\ pc = "buildtools"
    /\ \E outcome \in DownloadOutcomes :
         LET r == download_buildtools(cache, config, args.force_update, outcome)
         IN /\ cache' = r.cache
            /\ log' = IF r.fetched THEN Append(log, "GET BuildTools.jar") ELSE log
            /\ IF r.raised
               THEN /\ Raise("Error downloading BuildTools.jar")
                    /\ failures' = Append(failures, "Error downloading BuildTools.jar")
                    /\ UNCHANGED jarPath
               ELSE /\ IF op = "download_buildtools"
                       THEN pc' = "done" /\ jarPath' = BuildToolsJar
                       ELSE pc' = "build_start" /\ UNCHANGED jarPath
                    /\ UNCHANGED <<failures, error>>
    /\ UNCHANGED <<retval, warnings, cliVars>>
    /\ UNCHANGED <<config, servers, op, args, urlIdx, workspace, clock, tasks,
                   accepted, servers0, cache0>>

\* lines 435-488: the workspace is created and the subprocess started.
BuildStart ==
    /\ pc = "build_start"
    /\ workspace' = TRUE
    /\ clock' = 0
    /\ log' = Append(log, "java -jar BuildTools.jar")
    /\ pc' = "build_wait"
    /\ UNCHANGED <<retval, warnings, cliVars>>
    /\ UNCHANGED <<config, servers, cache, op, args, urlIdx, jarPath, tasks,
                   accepted, failures, error, servers0, cache0>>

\* Time passes while the subprocess runs.  In quick mode subprocess.run waits
\* at most timeout=1800 seconds (line 471); the interactive branch (lines
\* 479-491) reads stdout and calls process.wait() with no timeout.
BuildTick ==
    /\ pc = "build_wait"
    /\ clock < MaxTicks * (BuildTimeout \div 2)
    /\ quick_mode(config) => clock < BuildTimeout
    /\ clock' = clock + BuildTimeout \div 2
    /\ UNCHANGED <<retval, warnings, cliVars>>
    /\ UNCHANGED <<config, servers, cache, pc, op, args, urlIdx, jarPath, workspace,
                   tasks, log, accepted, failures, error, servers0, cache0>>

\* subprocess.TimeoutExpired, raised by subprocess.run only (lines 465-472),
\* handled at lines 509-510.
BuildTimeoutExpired ==
    /\ pc = "build_wait"
    /\ quick_mode(config)
    /\ clock >= BuildTimeout
    /\ workspace' = workspace_after_exit("timeout")
    /\ clock' = 0
    /\ Raise("BuildTools timeout - build took too long")
    /\ failures' = Append(failures, "BuildTools timeout - build took too long")
    /\ UNCHANGED <<retval, warnings, cliVars>>
    /\ UNCHANGED <<config, servers, cache, op, args, urlIdx, jarPath, tasks, log,
                   accepted, servers0, cache0>>

\* The subprocess exits: lines 473-477 / 492-493 (exit code), 495-502 (find
\* the jar), 504-507 (copy it into the cache), then the with block is left.
BuildExit ==
    /\ pc = "build_wait"
    /\ quick_mode(config) => clock <= BuildTimeout
    /\ \E how \in BuildOutcomes, size \in DownloadSizes :
         LET key == SpigotJar(args.version)
             msg == CASE how = "nonzero_exit" -> "BuildTools failed with exit code"
                      [] how = "no_jar" -> "Spigot JAR not found"
                      [] OTHER -> "copy failed"
         IN /\ workspace' = workspace_after_exit(how)
            /\ clock' = 0
            /\ IF how \in {"jar", "jar_other_name"}
               THEN /\ cache' = Put(cache, key, CacheFile("new", size, FALSE, 0))
                    /\ accepted' = IF accepted = 0 THEN Len(log) ELSE accepted
                    /\ Return(key)
                    /\ UNCHANGED <<failures, error>>
               ELSE /\ cache' = IF how = "copy_failed"
                                THEN Put(cache, key, CacheFile("new", size, TRUE, 0))
                                ELSE cache
                    /\ Raise(msg)
                    /\ failures' = Append(failures, msg)
                    /\ UNCHANGED <<accepted, jarPath>>
    /\ UNCHANGED <<retval, warnings, cliVars>>
    /\ UNCHANGED <<config, servers, op, args, urlIdx, tasks, log, servers0, cache0>>

\* --------------------------------------------------------- download_bukkit
\* lines 356-370: the version check, the HEAD request, the cache test.
BukkitHead ==
    /\ pc = "download_bukkit"
    /\ IF args.version \notin SUPPORTED_BUKKIT_VERSIONS
       THEN /\ Raise("Bukkit not available for version")
            /\ failures' = Append(failures, "Bukkit not available for version")
            /\ UNCHANGED <<log, jarPath>>
       ELSE \E status \in {"200", "404"} :
              /\ log' = Append(log, "HEAD craftbukkit")
              /\ IF status # "200"
                 THEN /\ Raise("Bukkit JAR not found")
                      /\ failures' = Append(failures, "Bukkit JAR not found")
                      /\ UNCHANGED jarPath
                 ELSE /\ IF Exists(cache, BukkitJar(args.version))
                         THEN Return(BukkitJar(args.version))
                         ELSE pc' = "bukkit_get" /\ UNCHANGED jarPath
                      /\ UNCHANGED <<failures, error>>
    /\ UNCHANGED <<retval, warnings, cliVars>>
    /\ UNCHANGED <<config, servers, cache, op, args, urlIdx, workspace, clock, tasks,
                   accepted, servers0, cache0>>

\* lines 371-373: the download, straight into the cache file.
BukkitGet ==
    /\ pc = "bukkit_get"
    /\ \E outcome \in DownloadOutcomes, size \in DownloadSizes :
         /\ cache' = download_file_parallel(cache, BukkitJar(args.version), outcome, size)
         /\ log' = Append(log, "GET craftbukkit")
         /\ IF outcome = "ok"
            THEN /\ Return(BukkitJar(args.version))
                 /\ accepted' = Len(log) + 1
                 /\ UNCHANGED <<failures, error>>
            ELSE /\ Raise("Error during download")
                 /\ failures' = Append(failures, "Error during download")
                 /\ UNCHANGED <<accepted, jarPath>>
    /\ UNCHANGED <<retval, warnings, cliVars>>
    /\ UNCHANGED <<config, servers, op, args, urlIdx, workspace, clock, tasks,
                   servers0, cache0>>

\* -------------------------------------------------------- download_vanilla
\* lines 377-381 with get_vanilla_server_url (lines 400-412): the manifest
\* lookup, which yields "" on any failure, then the cache test.
VanillaManifest ==
    /\ pc = "download_vanilla"
    /\ \E found \in BOOLEAN :
         /\ log' = Append(log, "GET version_manifest")
         /\ IF ~found
            THEN /\ Raise("Could not find download URL")
                 /\ failures' = Append(failures, "Could not find download URL")
                 /\ UNCHANGED jarPath
            ELSE /\ IF Exists(cache, VanillaJar(args.version))
                    THEN Return(VanillaJar(args.version))
                    ELSE pc' = "vanilla_get" /\ UNCHANGED jarPath
                 /\ UNCHANGED <<failures, error>>
    /\ UNCHANGED <<retval, warnings, cliVars>>
    /\ UNCHANGED <<config, servers, cache, op, args, urlIdx, workspace, clock, tasks,
                   accepted, servers0, cache0>>

\* lines 382-384.
VanillaGet ==
    /\ pc = "vanilla_get"
    /\ \E outcome \in DownloadOutcomes, size \in DownloadSizes :
         /\ cache' = download_file_parallel(cache, VanillaJar(args.version), outcome, size)
         /\ log' = Append(log, "GET minecraft_server")
         /\ IF outcome = "ok"
            THEN /\ Return(VanillaJar(args.version))
                 /\ accepted' = Len(log) + 1
                 /\ UNCHANGED <<failures, error>>
            ELSE /\ Raise("Error during download")
                 /\ failures' = Append(failures, "Error during download")
                 /\ UNCHANGED <<accepted, jarPath>>
    /\ UNCHANGED <<retval, warnings, cliVars>>
    /\ UNCHANGED <<config, servers, op, args, urlIdx, workspace, clock, tasks,
                   servers0, cache0>>

\* ------------------------------------------- calls of the acquisition methods
StartCall(o, a, first) ==
    /\ pc = "idle"
    /\ op' = o
    /\ args' = a
    /\ pc' = first
    /\ servers0' = servers
    /\ cache0' = cache
    /\ UNCHANGED <<config, servers, cache, urlIdx, jarPath, workspace, clock, tasks,
                   log, accepted, failures, error>>

CallBuildSpigot ==
    /\ \E v \in Versions, fr \in BOOLEAN :
         StartCall("build_spigot",
                   [NoArgs EXCEPT !.version = v, !.type = "spigot", !.force_rebuild = fr],
                   "build_spigot")
    /\ UNCHANGED <<retval, warnings, cliVars>>
CallDownloadBukkit ==
    /\ \E v \in Versions :
         StartCall("download_bukkit", [NoArgs EXCEPT !.version = v, !.type = "bukkit"],
                   "download_bukkit")
    /\ UNCHANGED <<retval, warnings, cliVars>>
CallDownloadVanilla ==
    /\ \E v \in Versions :
         StartCall("download_vanilla", [NoArgs EXCEPT !.version = v, !.type = "vanilla"],
                   "download_vanilla")
    /\ UNCHANGED <<retval, warnings, cliVars>>
CallDownloadBuildtools ==
    /\ \E fu \in BOOLEAN :
         StartCall("download_buildtools", [NoArgs EXCEPT !.force_update = fu], "buildtools")
    /\ UNCHANGED <<retval, warnings, cliVars>>

\* ------------------------------------------------------- disk states before
\* What earlier runs can have left in the cache: at most one artifact (valid
\* or no larger than 1 MiB), and the toolchain binary at some age with or
\* without the backup an earlier refresh left behind.
ToolchainAges ==
    {0, DefaultUpdateInterval, DefaultUpdateInterval + 1,
     QuickModeFactor * DefaultUpdateInterval,
     QuickModeFactor * DefaultUpdateInterval + 1}
ArtifactPriors ==
    {EmptyDir} \cup
    {[x \in {k} |-> CacheFile("old", s, FALSE, 0)] : k \in ArtifactKeys, s \in DownloadSizes}
BackupPriors ==
    {EmptyDir, [x \in {BuildToolsBackup} |-> CacheFile("older", MinJarSize + 1, FALSE, 0)]}
ToolchainPriors ==
    {b : b \in BackupPriors} \cup
    {Put(b, BuildToolsJar, CacheFile("old", MinJarSize + 1, FALSE, a)) :
        b \in BackupPriors, a \in ToolchainAges}
Configs ==
    {[default_config EXCEPT !.quick_mode = JBool(q), !.use_prebuilt_spigot = JBool(u),
                            !.skip_java_check = JBool(s)] : q, u, s \in BOOLEAN}

InitLocals ==
    /\ pc = "idle"
    /\ op = ""
    /\ args = NoArgs
    /\ urlIdx = 0
    /\ jarPath = ""
    /\ workspace = FALSE
    /\ clock = 0
    /\ tasks = [t \in TaskNames |-> "idle"]
    /\ log = <<>>
    /\ accepted = 0
    /\ failures = <<>>
    /\ error = <<>>
    /\ retval = "none"
    /\ warnings = {}

\* A method is called on a creator whose constructor has loaded config.json.
InitCli ==
    /\ configFile = ConfigObject(config)
    /\ argv = NoArgv
    /\ mainPc = "off"
    /\ exitCode = -1
    /\ uncaught = FALSE
    /\ handled = ""

InitAcquire ==
    /\ config \in Configs
    /\ servers = EmptyDir
    /\ \E art \in ArtifactPriors, bt \in ToolchainPriors : cache = art @@ bt
    /\ servers0 = servers
    /\ cache0 = cache
    /\ InitLocals
    /\ InitCli

AcquireSteps ==
    \/ BuildSpigotEntry
    \/ TryPrebuiltUrl
    \/ JavaCheck
    \/ DownloadBuildtools
    \/ BuildStart
    \/ BuildTick
    \/ BuildTimeoutExpired
    \/ BuildExit
    \/ BukkitHead
    \/ BukkitGet
    \/ VanillaManifest
    \/ VanillaGet

AcquireCalls ==
    \/ CallBuildSpigot
    \/ CallDownloadBukkit
    \/ CallDownloadVanilla
    \/ CallDownloadBuildtools

NextAcquire ==
    \/ AcquireCalls
    \/ AcquireSteps

SpecAcquire == InitAcquire /\ [][NextAcquire]_vars

\* ------------------------------------------------------------ create_server
\* The content of a directory entry: a jar (gen: where its bytes came from),
\* a generated file or launch script (ref: the jar name the script runs), or
\* a subdirectory.  gen is "old" for what was there before the call.
Content(kind, gen, ref) == [kind |-> kind, gen |-> gen, ref |-> ref]

ScaffoldFiles == {"server.properties", "eula.txt", "start.sh", "start.bat",
                  "server_info.json", "README.md"}
ScaffoldDirs == {"plugins", "world", "logs"}

\* lines 766-776: the jar name create_server copies the artifact to.
jar_name(type, version) ==
    CASE type = "spigot" -> SpigotJar(version)
      [] type = "bukkit" -> BukkitJar(version)
      [] OTHER -> VanillaJar(version)

\* create_files_parallel, line 527: the jar name given to create_start_script.
start_script_jar(type, version) == SpigotJar(version)

mkdir_exist_ok(d, k) == IF Exists(d, k) THEN d ELSE Put(d, k, Content("dir", "new", ""))

\* create_files_parallel, lines 520-538: what each task writes into server_dir.
task_effect(d, t, type, version) ==
    CASE t = "server_properties" -> Put(d, "server.properties", Content("file", "new", ""))
      [] t = "eula" -> Put(d, "eula.txt", Content("file", "new", ""))
      [] t = "start_script" ->
            Put(Put(d, "start.sh", Content("script", "new", start_script_jar(type, version))),
                "start.bat", Content("script", "new", start_script_jar(type, version)))
      [] t = "server_info" -> Put(d, "server_info.json", Content("file", "new", ""))
      [] t = "readme" -> Put(d, "README.md", Content("file", "new", ""))
      [] OTHER -> mkdir_exist_ok(mkdir_exist_ok(mkdir_exist_ok(d, "plugins"), "world"), "logs")

Platforms == {"Windows", "Linux"}

\* fast_rmtree, lines 177-227, on an existing directory: it removed the path,
\* it returned with the path still there ("residue": cmd /c rmdir exits 0,
\* lines 197-202, and the path is not looked at again), or it raised.
fast_rmtree_outcomes(plat) ==
    IF plat = "Windows" THEN {"removed", "residue", "raised"} ELSE {"removed", "raised"}

\* create_server, lines 698-699: what is done about the target directory.
existing_dir_step(exists, force_overwrite) ==
    IF exists /\ force_overwrite THEN "force_remove" ELSE "mkdir"

\* create_server, line 711: list(server_dir.iterdir()) raises FileNotFoundError
\* when the directory is gone.
list_contents_step(exists) == IF exists THEN "remove_again" ELSE "raise"

\* line 786: the artifact is copied only when no such jar is in the directory.
copy_jar(d, name, file) ==
    IF Exists(d, name) THEN d ELSE Put(d, name, Content("jar", file.payload, ""))

CallCreateServer ==
    /\ \E n \in Names, v \in Versions, t \in ServerTypes \cup {"paper"},
          fo \in BOOLEAN, fr \in BOOLEAN :
         StartCall("create_server",
                   [NoArgs EXCEPT !.name = n, !.version = v, !.type = t,
                                  !.force_overwrite = fo, !.force_rebuild = fr],
                   "check_exists")
    /\ UNCHANGED <<retval, warnings, cliVars>>

CreateUnchanged ==
    UNCHANGED <<config, cache, op, args, urlIdx, jarPath, workspace, clock, log,
                accepted, failures, servers0, cache0, retval, cliVars>>

\* concurrent.futures.wait(futures), line 550: with the default return_when
\* it returns when every future has finished.
wait_over(ts) == \A t \in TaskNames : ts[t] \in {"ok", "failed"}

\* A loop without the except clause: the first failed future raises.
join_raises_on_failure(ts) == \E t \in TaskNames : ts[t] = "failed"

\* lines 552-556: future.result() raises what the task raised; the except
\* clause prints it, so nothing leaves the loop.
join_raises(ts) == FALSE

\* lines 698-699.
CheckExists ==
    /\ pc = "check_exists"
    /\ pc' = existing_dir_step(Exists(servers, args.name), args.force_overwrite)
    /\ UNCHANGED <<servers, tasks, error>>
    /\ UNCHANGED warnings
    /\ CreateUnchanged

\* lines 700-706: the first fast_rmtree.  platform.system() is read by each
\* call; every Linux outcome is also a Windows outcome.
ForceRemove ==
    /\ pc = "force_remove"
    /\ \E plat \in Platforms : \E how \in fast_rmtree_outcomes(plat) :
         CASE how = "removed" ->
                /\ servers' = Unlink(servers, args.name)
                /\ pc' = "list_contents"
                /\ UNCHANGED error
           [] how = "residue" ->
                /\ pc' = "list_contents"
                /\ UNCHANGED <<servers, error>>
           [] OTHER ->
                /\ Raise("Complete removal failure")
                /\ UNCHANGED servers
    /\ UNCHANGED tasks
    /\ UNCHANGED warnings
    /\ CreateUnchanged

\* lines 709-712, and the handler of lines 740-749 that re-raises.
ListContents ==
    /\ pc = "list_contents"
    /\ IF list_contents_step(Exists(servers, args.name)) = "raise"
       THEN Raise("FileNotFoundError")
       ELSE pc' = "remove_again" /\ UNCHANGED error
    /\ UNCHANGED <<servers, tasks>>
    /\ UNCHANGED warnings
    /\ CreateUnchanged

\* lines 715-718: the second fast_rmtree.
RemoveAgain ==
    /\ pc = "remove_again"
    /\ \E plat \in Platforms : \E how \in fast_rmtree_outcomes(plat) :
         CASE how = "removed" ->
                /\ servers' = Unlink(servers, args.name)
                /\ pc' = "verify_removed"
                /\ UNCHANGED error
           [] how = "residue" ->
                /\ pc' = "verify_removed"
                /\ UNCHANGED <<servers, error>>
           [] OTHER ->
                /\ Raise("Complete removal failure")
                /\ UNCHANGED servers
    /\ UNCHANGED tasks
    /\ UNCHANGED warnings
    /\ CreateUnchanged

\* lines 720-733: if the directory is still there, shutil.rmtree with
\* ignore_errors=True, and the second look.
VerifyRemoved ==
    /\ pc = "verify_removed"
    /\ IF Exists(servers, args.name)
       THEN \E removed \in BOOLEAN :
              IF removed
              THEN /\ servers' = Unlink(servers, args.name)
                   /\ pc' = "mkdir"
                   /\ UNCHANGED error
              ELSE /\ Raise("Directory removal failed")
                   /\ UNCHANGED servers
       ELSE pc' = "mkdir" /\ UNCHANGED <<servers, error>>
    /\ UNCHANGED tasks
    /\ UNCHANGED warnings
    /\ CreateUnchanged

\* lines 755-761: server_dir.mkdir(parents=True, exist_ok=True).
Mkdir ==
    /\ pc = "mkdir"
    /\ servers' = IF Exists(servers, args.name) THEN servers
                  ELSE Put(servers, args.name, EmptyDir)
    /\ pc' = "get_jar"
    /\ UNCHANGED <<tasks, error>>
    /\ UNCHANGED warnings
    /\ CreateUnchanged

\* lines 764-781: the acquisition for the server type.
GetJar ==
    /\ pc = "get_jar"
    /\ CASE args.type = "spigot" -> pc' = "build_spigot" /\ UNCHANGED error
         [] args.type = "bukkit" -> pc' = "download_bukkit" /\ UNCHANGED error
         [] args.type = "vanilla" -> pc' = "download_vanilla" /\ UNCHANGED error
         [] OTHER -> Raise("Unknown server type")
    /\ UNCHANGED <<servers, tasks>>
    /\ UNCHANGED warnings
    /\ CreateUnchanged

\* lines 783-793 and 540-548: the jar is copied, the six tasks are submitted.
CopyJar ==
    /\ pc = "copy_jar"
    /\ servers' = [servers EXCEPT ![args.name] =
                      copy_jar(@, jar_name(args.type, args.version), cache[jarPath])]
    /\ tasks' = [t \in TaskNames |-> "pending"]
    /\ pc' = "scaffold"
    /\ UNCHANGED error
    /\ UNCHANGED warnings
    /\ CreateUnchanged

\* One task of the pool runs to its end: it writes its entries or raises.
RunTask ==
    /\ pc = "scaffold"
    /\ \E t \in TaskNames : \E ok \in BOOLEAN :
         /\ tasks[t] = "pending"
         /\ tasks' = [tasks EXCEPT ![t] = IF ok THEN "ok" ELSE "failed"]
         /\ servers' = IF ok
                       THEN [servers EXCEPT ![args.name] =
                                task_effect(@, t, args.type, args.version)]
                       ELSE servers
    /\ UNCHANGED <<pc, error>>
    /\ UNCHANGED warnings
    /\ CreateUnchanged

\* lines 550-556: wait for all futures, print each failure; lines 804-809.
ScaffoldJoin ==
    /\ pc = "scaffold"
    /\ wait_over(tasks)
    /\ IF join_raises(tasks)
       THEN Raise("Error when creating the files") /\ UNCHANGED warnings
       ELSE /\ pc' = "done"
            /\ warnings' = {t \in TaskNames : tasks[t] = "failed"}
            /\ UNCHANGED error
    /\ UNCHANGED <<servers, tasks>>
    /\ CreateUnchanged

\* A server an earlier create_server made (spigot 1.20.4) and that has run
\* since: the scaffold, the jar, and a file the server wrote.
OldServer ==
    [x \in ScaffoldFiles \cup ScaffoldDirs \cup {SpigotJar("1.20.4"), "ops.json"} |->
        CASE x \in {"start.sh", "start.bat"} -> Content("script", "old", SpigotJar("1.20.4"))
          [] x \in ScaffoldDirs -> Content("dir", "old", "")
          [] x = SpigotJar("1.20.4") -> Content("jar", "old", "")
          [] OTHER -> Content("file", "old", "")]

\* The cache before a create_server: empty, or holding one valid artifact.
ProvisionCachePriors ==
    {EmptyDir} \cup
    {[x \in {k} |-> CacheFile("old", MinJarSize + 1, FALSE, 0)] :
        k \in {SpigotJar("1.20.4"), BukkitJar("1.20.4"), VanillaJar("1.20.4")}}

Init ==
    /\ config \in {default_config, [default_config EXCEPT !.quick_mode = JBool(TRUE)]}
    /\ servers \in {EmptyDir, [n \in Names |-> OldServer]}
    /\ cache \in ProvisionCachePriors
    /\ servers0 = servers
    /\ cache0 = cache
    /\ InitLocals
    /\ InitCli

\* The steps of the force_overwrite branch, and the others.
OverwriteSteps ==
    \/ ForceRemove
    \/ ListContents
    \/ RemoveAgain
    \/ VerifyRemoved

ProvisionSteps ==
    \/ CheckExists
    \/ Mkdir
    \/ GetJar
    \/ CopyJar
    \/ RunTask
    \/ ScaffoldJoin

CreateSteps ==
    \/ OverwriteSteps
    \/ ProvisionSteps

\* ------------------------------------------------------------ remove_server
\* What the user may type at the prompt of line 838.
Responses == {"y", "Y", "n", "yes", ""}

\* str.lower() on those answers
lower(r) == IF r = "Y" THEN "y" ELSE r

\* lines 837-841: the removal goes ahead with force or the answer y.
remove_confirmed(force, response) == force \/ lower(response) = "y"

CallRemoveServer ==
    /\ \E n \in Names, f \in BOOLEAN :
         StartCall("remove_server", [NoArgs EXCEPT !.name = n, !.force = f],
                   "remove_server")
    /\ UNCHANGED <<retval, warnings, cliVars>>

\* remove_server, lines 829-849.  It returns True when fast_rmtree returned,
\* False when the directory is absent, the answer is not y, or fast_rmtree
\* raised.  The answer typed at the prompt is kept in log.
RemoveServer ==
    /\ pc = "remove_server"
    /\ IF ~Exists(servers, args.name)
       THEN retval' = "False" /\ UNCHANGED <<servers, log>>
       ELSE \E response \in Responses :
              /\ log' = IF args.force THEN log ELSE Append(log, response)
              /\ IF ~remove_confirmed(args.force, response)
                 THEN retval' = "False" /\ UNCHANGED servers
                 ELSE \E plat \in Platforms : \E how \in fast_rmtree_outcomes(plat) :
                        CASE how = "removed" ->
                               /\ servers' = Unlink(servers, args.name)
                               /\ retval' = "True"
                          [] how = "residue" ->
                               /\ retval' = "True"
                               /\ UNCHANGED servers
                          [] OTHER ->
                               /\ retval' = "False"
                               /\ UNCHANGED servers
    /\ pc' = "done"
    /\ UNCHANGED <<warnings, cliVars>>
    /\ UNCHANGED <<config, cache, op, args, urlIdx, jarPath, workspace, clock, tasks,
                   accepted, failures, error, servers0, cache0>>

Next ==
    \/ CallCreateServer
    \/ CreateSteps
    \/ AcquireSteps
    \/ CallRemoveServer
    \/ RemoveServer

Spec == Init /\ [][Next]_vars

\* -------------------------------------------------------------- fast_rmtree
\* What a removal that did not finish leaves of a directory: all of it, or
\* the entries a running server holds open.
Restrict(d, keep) == [x \in keep |-> d[x]]
Residues(d) ==
    {DOMAIN d, DOMAIN d \cap {"ops.json", "logs"}, DOMAIN d \cap {"ops.json"}} \ {{}}

\* The servers directory after a removal of servers_dir/name that left the
\* entries `keep` ({}: the directory is gone).
after_removal(s, name, keep) ==
    IF keep = {} THEN Unlink(s, name)
    ELSE [s EXCEPT ![name] = Restrict(@, keep)]

\* fast_rmtree(path), called directly on servers_dir/name.
CallFastRmtree ==
    /\ \E n \in Names : StartCall("fast_rmtree", [NoArgs EXCEPT !.name = n], "fast_rmtree")
    /\ UNCHANGED <<retval, warnings, cliVars>>

\* lines 182-187: nothing to do for an absent path; else the Windows branch
\* or, on every other platform, shutil.rmtree at once.
FastRmtreeEntry ==
    /\ pc = "fast_rmtree"
    /\ IF ~Exists(servers, args.name)
       THEN pc' = "done"
       ELSE \E plat \in Platforms :
              pc' = IF plat = "Windows" THEN "rmdir" ELSE "rmtree"
    /\ UNCHANGED <<retval, warnings, cliVars>>
    /\ UNCHANGED <<config, servers, cache, op, args, urlIdx, jarPath, workspace, clock,
                   tasks, log, accepted, failures, error, servers0, cache0>>

\* lines 188-209: cmd /c rmdir /S /Q.  Exit code 0 returns at once (lines
\* 198-201) and the path is not looked at; a non-zero code, a timeout or any
\* other exception goes on to the fallback.  rmdir may exit with 0 although
\* it could not delete an entry that is in use.
WindowsRmdir ==
    /\ pc = "rmdir"
    /\ log' = Append(log, "cmd /c rmdir")
    /\ \E rc \in {"0", "nonzero", "timeout"} :
       \E keep \in {{}} \cup Residues(servers[args.name]) :
         /\ servers' = after_removal(servers, args.name, keep)
         /\ pc' = IF rc = "0" THEN "done" ELSE "rmtree"
    /\ UNCHANGED <<retval, warnings, cliVars>>
    /\ UNCHANGED <<config, cache, op, args, urlIdx, jarPath, workspace, clock, tasks,
                   accepted, failures, error, servers0, cache0>>

\* lines 212-216: shutil.rmtree(path, ignore_errors=False) removes the path
\* and returns, or raises (for a path that is gone, too) and leaves what it
\* had not yet deleted.
Rmtree ==
    /\ pc = "rmtree"
    /\ log' = Append(log, "shutil.rmtree")
    /\ IF ~Exists(servers, args.name)
       THEN pc' = "rmtree_ignore_errors" /\ UNCHANGED servers
       ELSE \E keep \in {{}} \cup Residues(servers[args.name]) :
              /\ servers' = after_removal(servers, args.name, keep)
              /\ pc' = IF keep = {} THEN "done" ELSE "rmtree_ignore_errors"
    /\ UNCHANGED <<retval, warnings, cliVars>>
    /\ UNCHANGED <<config, cache, op, args, urlIdx, jarPath, workspace, clock, tasks,
                   accepted, failures, error, servers0, cache0>>

\* lines 218-227: shutil.rmtree(path, ignore_errors=True), then the look at
\* the path: return if it is gone, else raise.
RmtreeIgnoreErrors ==
    /\ pc = "rmtree_ignore_errors"
    /\ log' = Append(log, "shutil.rmtree ignore_errors")
    /\ IF ~Exists(servers, args.name)
       THEN pc' = "done" /\ UNCHANGED <<servers, error>>
       ELSE \E keep \in {{}} \cup Residues(servers[args.name]) :
              /\ servers' = after_removal(servers, args.name, keep)
              /\ IF keep = {}
                 THEN pc' = "done" /\ UNCHANGED error
                 ELSE Raise("Complete removal failure")
    /\ UNCHANGED <<retval, warnings, cliVars>>
    /\ UNCHANGED <<config, cache, op, args, urlIdx, jarPath, workspace, clock, tasks,
                   accepted, failures, servers0, cache0>>

\* A directory an earlier, interrupted removal left behind.
LockedServer == Restrict(OldServer, {"ops.json"})

InitRemove ==
    /\ config \in {default_config, [default_config EXCEPT !.quick_mode = JBool(TRUE)]}
    /\ servers \in {EmptyDir, [n \in Names |-> OldServer], [n \in Names |-> LockedServer],
                    [n \in Names |-> EmptyDir]}
    /\ cache = EmptyDir
    /\ servers0 = servers
    /\ cache0 = cache
    /\ InitLocals
    /\ InitCli

RemoveSteps ==
    \/ FastRmtreeEntry
    \/ WindowsRmdir
    \/ Rmtree
    \/ RmtreeIgnoreErrors

NextRemove ==
    \/ CallFastRmtree
    \/ RemoveSteps

SpecRemove == InitRemove /\ [][NextRemove]_vars

\* ------------------------------------------------ should_update_buildtools
\* The intervals a user may have configured and the ages BuildTools.jar may
\* have; st_mtime may lie in the future (a restored file, a clock set back),
\* which makes now - st_mtime negative.
StaleIntervals == {0 - DefaultUpdateInterval, 0, 1, DefaultUpdateInterval}
StaleAges ==
    ToolchainAges \cup {0 - QuickModeFactor * DefaultUpdateInterval - 1,
                        0 - DefaultUpdateInterval - 1, 0 - 1, 1, 2, 7, 8}

CallShouldUpdateBuildtools ==
    /\ StartCall("should_update_buildtools", NoArgs, "should_update")
    /\ UNCHANGED <<retval, warnings, cliVars>>

\* should_update_buildtools, lines 162-175, called directly.
ShouldUpdateBuildtools ==
    /\ pc = "should_update"
    /\ retval' = IF should_update_buildtools(cache, config) THEN "True" ELSE "False"
    /\ pc' = "done"
    /\ UNCHANGED <<warnings, cliVars>>
    /\ UNCHANGED <<config, servers, cache, op, args, urlIdx, jarPath, workspace, clock,
                   tasks, log, accepted, failures, error, servers0, cache0>>

InitStale ==
    /\ config \in {[default_config EXCEPT !.quick_mode = JBool(q),
                                          !.buildtools_update_interval = JNum(i)] :
                      q \in BOOLEAN, i \in StaleIntervals}
    /\ servers = EmptyDir
    /\ cache \in {EmptyDir} \cup
                 {[x \in {BuildToolsJar} |-> CacheFile("old", MinJarSize + 1, FALSE, a)] :
                     a \in StaleAges}
    /\ servers0 = servers
    /\ cache0 = cache
    /\ InitLocals
    /\ InitCli

NextStale ==
    \/ CallShouldUpdateBuildtools
    \/ ShouldUpdateBuildtools

SpecStale == InitStale /\ [][NextStale]_vars

\* ------------------------------------------------------ configuration file
ConfigKinds == {"absent", "unreadable", "corrupt", "array", "object"}

\* A JSON array of strings in config.json, held by its members.
ConfigArray(members) == [kind |-> "array", text |-> [x \in members |-> x]]

\* lines 74-75: open and json.load.  A file that cannot be opened or whose
\* text is not JSON raises (ok is FALSE); an object parses to a dict, an
\* array to a list.
json_load(file) ==
    [ok |-> file.kind \in {"object", "array"},
     type |-> IF file.kind = "object" THEN "dict" ELSE "list",
     value |-> IF file.kind = "object" THEN json_load_obj(file.text)
               ELSE [x \in DOMAIN file.text |-> JStr(x)]]

\* The loop of lines 77-79 on the parsed value.  `key not in config` is a
\* test on the keys of a dict and on the members of a list; the assignment
\* of line 79 stores into a dict and raises TypeError for a list, so a list
\* gets through the loop only if it has every default key as a member.
merge_defaults(type, value) ==
    IF type = "dict"
    THEN [ok |-> TRUE,
          value |-> [k \in DOMAIN value \cup DOMAIN default_config |->
                        IF k \in DOMAIN value THEN value[k] ELSE default_config[k]]]
    ELSE [ok |-> DOMAIN default_config \subseteq DOMAIN value, value |-> value]

\* load_config, lines 59-88.  The parsed value is returned after the loop
\* (line 80); an absent file, or any exception of lines 74-79 (line 81),
\* gives the defaults, which are written to the file (lines 84-86): that
\* write is outside the try and raises when the file cannot be written.
load_config(file, writable) ==
    LET parsed == json_load(file)
        merged == merge_defaults(parsed.type, parsed.value)
    IN IF file.kind # "absent" /\ parsed.ok /\ merged.ok
       THEN [raised |-> FALSE, type |-> parsed.type, config |-> merged.value,
             file |-> file]
       ELSE IF writable
            THEN [raised |-> FALSE, type |-> "dict", config |-> default_config,
                  file |-> ConfigObject(default_config)]
            ELSE [raised |-> TRUE, type |-> "none", config |-> default_config,
                  file |-> file]

\* self.config = self.load_config() (line 54), step by step.  config holds
\* the local variable `config` of lines 75-80 and then the value returned;
\* retval holds the Python type of that value.
LoadUnchanged ==
    UNCHANGED <<servers, cache, op, args, urlIdx, jarPath, workspace, clock, tasks,
                log, accepted, failures, servers0, cache0, warnings, argv, mainPc,
                exitCode, uncaught, handled>>

CallLoadConfig ==
    /\ StartCall("load_config", NoArgs, "load_config")
    /\ UNCHANGED <<retval, warnings, cliVars>>

\* lines 72-75: the test for the file, open and json.load.
LoadConfigRead ==
    /\ pc = "load_config"
    /\ IF configFile.kind # "absent" /\ json_load(configFile).ok
       THEN /\ config' = json_load(configFile).value
            /\ retval' = json_load(configFile).type
            /\ pc' = "merge"
       ELSE /\ pc' = "write"
            /\ UNCHANGED <<config, retval>>
    /\ UNCHANGED <<configFile, error>>
    /\ LoadUnchanged

\* lines 77-81: the loop over the default keys and the return of line 80, or
\* the exception the loop raised.
LoadConfigMerge ==
    /\ pc = "merge"
    /\ LET merged == merge_defaults(retval, config)
       IN IF merged.ok
          THEN config' = merged.value /\ pc' = "done"
          ELSE pc' = "write" /\ UNCHANGED config
    /\ UNCHANGED <<configFile, retval, error>>
    /\ LoadUnchanged

\* lines 83-88: the defaults are written and returned; an exception of mkdir
\* or open leaves load_config.
LoadConfigWrite ==
    /\ pc = "write"
    /\ \E writable \in BOOLEAN :
         IF writable
         THEN /\ configFile' = ConfigObject(default_config)
              /\ config' = default_config
              /\ retval' = "dict"
              /\ pc' = "done"
              /\ UNCHANGED error
         ELSE /\ Raise("config.json cannot be written")
              /\ UNCHANGED <<config, configFile, retval>>
    /\ LoadUnchanged

\* config.json before the constructor runs: absent, unreadable, text that is
\* not JSON, an array of strings, or an object holding some of the keys with
\* the default or with the user's values.
StoredKeys == {"quick_mode", "default_port", "java_path", "motd"}
UserConfig ==
    [k \in DOMAIN default_config \cup {"motd"} |->
        CASE k = "quick_mode" -> JBool(TRUE)
          [] k = "default_port" -> JNum(25566)
          [] k = "java_path" -> JStr("4G")
          [] k = "motd" -> JStr("y")
          [] OTHER -> default_config[k]]
LoadFilePriors ==
    {[kind |-> k, text |-> EmptyDir] : k \in {"absent", "unreadable", "corrupt"}}
    \cup {ConfigArray(m) : m \in {{}, {"quick_mode"}, DOMAIN default_config,
                                  DOMAIN default_config \cup {"motd"}}}
    \cup {ConfigObject(default_config), ConfigObject(UserConfig)}
    \cup {ConfigObject(Restrict(UserConfig, ks)) : ks \in SUBSET StoredKeys}
    \cup {ConfigObject(Restrict(default_config, ks)) : ks \in SUBSET (StoredKeys \ {"motd"})}

InitLoad ==
    /\ config = EmptyDir
    /\ servers = EmptyDir
    /\ cache = EmptyDir
    /\ servers0 = servers
    /\ cache0 = cache
    /\ InitLocals
    /\ configFile \in LoadFilePriors
    /\ argv = NoArgv
    /\ mainPc = "off"
    /\ exitCode = -1
    /\ uncaught = FALSE
    /\ handled = ""

NextLoad ==
    \/ CallLoadConfig
    \/ LoadConfigRead
    \/ LoadConfigMerge
    \/ LoadConfigWrite

SpecLoad == InitLoad /\ [][NextLoad]_vars

\* update_config, lines 875-887: the value is the parsed JSON, or the string
\* itself when it does not parse; the whole dictionary is written back.
update_config(cfg, file, key, value, writable) ==
    LET parsed == IF json_loads(value).ok THEN json_loads(value).value ELSE JStr(value)
        cfg1 == Put(cfg, key, parsed)
    IN [raised |-> ~writable,
        config |-> cfg1,
        file |-> IF writable THEN ConfigObject(cfg1) ELSE file]

\* show_config, lines 869-873: what json.dumps(self.config) prints.
show_config(cfg) == json_dump_obj(cfg)

\* --------------------------------------------------------------------- main
\* The sub-commands the parsers register (lines 912-951) and the choices of
\* --type (line 915).
Commands == {"create", "list", "remove", "versions", "cache", "config"}
CacheActions == {"clean", "info"}
ConfigActions == {"set"}
TypeChoices == {"spigot", "bukkit", "vanilla"}

\* parser.parse_args(), line 953: argparse ends the process with status 2 on
\* a command, sub-action or choice that is not registered; a sub-action may
\* be left out.
parse_args(a) ==
    IF /\ a.command \in Commands \cup {""}
       /\ a.command = "create" => a.type \in TypeChoices
       /\ a.command = "cache" => a.action \in CacheActions \cup {""}
       /\ a.command = "config" => a.action \in ConfigActions \cup {""}
    THEN "ok" ELSE "error"

ConfigKeys == {"quick_mode", "default_memory"}
ValueStrings == {"true", "\"true\"", "4G", "25566"}

\* The command lines the model starts main with.
CommandLines ==
    {[NoArgv EXCEPT !.command = c] : c \in {"", "list", "versions", "status"}}
    \cup {[NoArgv EXCEPT !.command = "create", !.name = n, !.version = v, !.type = t,
                         !.force_rebuild = fr] :
            n \in Names, v \in Versions, t \in TypeChoices \cup {"paper"}, fr \in BOOLEAN}
    \cup {[NoArgv EXCEPT !.command = "remove", !.name = n] : n \in Names}
    \cup {[NoArgv EXCEPT !.command = "cache", !.action = a] : a \in CacheActions \cup {""}}
    \cup {[NoArgv EXCEPT !.command = "config", !.action = a] : a \in {"", "show"}}
    \cup {[NoArgv EXCEPT !.command = "config", !.action = "set", !.key = k, !.value = x] :
            k \in ConfigKeys, x \in ValueStrings}

CallVars == <<pc, op, args, urlIdx, jarPath, workspace, clock, tasks, log, accepted,
              failures, error, servers0, cache0, retval, warnings>>

\* sys.exit(code), or main returning (status 0).
Exit(code) ==
    /\ mainPc' = "exited"
    /\ exitCode' = code
    /\ UNCHANGED <<argv, uncaught>>

\* An exception leaves main: the interpreter prints the traceback and ends
\* the process with status 1.
Traceback ==
    /\ mainPc' = "exited"
    /\ exitCode' = 1
    /\ uncaught' = TRUE
    /\ UNCHANGED argv

\* SpigotServerCreator(), lines 892 and 956 with __init__ (lines 45-57): the
\* two mkdir calls, then load_config.  Both constructions precede the try of
\* line 962.
MainConstruct ==
    /\ mainPc \in {"construct", "construct_again"}
    /\ \E dirs_ok \in BOOLEAN, writable \in BOOLEAN :
         LET r == load_config(configFile, writable)
         IN IF dirs_ok /\ ~r.raised
            THEN /\ config' = r.config
                 /\ configFile' = r.file
                 /\ mainPc' = IF mainPc = "construct" THEN "parse" ELSE "dispatch"
                 /\ UNCHANGED <<argv, exitCode, uncaught>>
            ELSE /\ Traceback
                 /\ UNCHANGED <<config, configFile>>
    /\ UNCHANGED <<servers, cache, handled>>
    /\ UNCHANGED CallVars

\* line 953.
MainParse ==
    /\ mainPc = "parse"
    /\ IF parse_args(argv) = "ok"
       THEN mainPc' = "construct_again" /\ UNCHANGED <<argv, exitCode, uncaught>>
       ELSE Exit(2)
    /\ UNCHANGED <<config, servers, cache, configFile, handled>>
    /\ UNCHANGED CallVars

\* lines 958-960: no command, the help is printed and main returns.
MainHelp ==
    /\ mainPc = "dispatch"
    /\ argv.command = ""
    /\ handled' = "help"
    /\ Exit(0)
    /\ UNCHANGED <<config, servers, cache, configFile>>
    /\ UNCHANGED CallVars

\* lines 963-982: the Java check, then create_server.
MainCreate ==
    /\ mainPc = "dispatch"
    /\ argv.command = "create"
    /\ handled' = "create"
    /\ \E java_ok \in BOOLEAN :
         IF skip_java_check(config) \/ java_ok
         THEN /\ StartCall("create_server",
                           [NoArgs EXCEPT !.name = argv.name, !.version = argv.version,
                                          !.type = argv.type,
                                          !.force_rebuild = argv.force_rebuild],
                           "check_exists")
              /\ mainPc' = "call"
              /\ UNCHANGED <<argv, exitCode, uncaught, retval, warnings>>
         ELSE /\ Exit(1)
              /\ UNCHANGED <<config, servers, cache>>
              /\ UNCHANGED CallVars
    /\ UNCHANGED configFile

\* lines 984-1002 and 1007-1013: list and versions print what they find;
\* the failures inside are caught where they occur.
MainQuery ==
    /\ mainPc = "dispatch"
    /\ argv.command \in {"list", "versions"}
    /\ handled' = argv.command
    /\ Exit(0)
    /\ UNCHANGED <<config, servers, cache, configFile>>
    /\ UNCHANGED CallVars

\* lines 1004-1005: remove_server(args.name), its result is not looked at.
MainRemove ==
    /\ mainPc = "dispatch"
    /\ argv.command = "remove"
    /\ handled' = "remove"
    /\ StartCall("remove_server", [NoArgs EXCEPT !.name = argv.name], "remove_server")
    /\ mainPc' = "call"
    /\ UNCHANGED <<argv, exitCode, uncaught, retval, warnings, configFile>>

\* lines 1015-1031 with clean_cache (lines 851-867): after the answer y the
\* cache directory is removed and made again; a failure is printed there.
MainCache ==
    /\ mainPc = "dispatch"
    /\ argv.command = "cache"
    /\ handled' = "cache " \o argv.action
    /\ IF argv.action = "clean"
       THEN \E response \in Responses, plat \in Platforms :
              \E how \in fast_rmtree_outcomes(plat) :
                cache' = IF lower(response) = "y" /\ how = "removed"
                         THEN EmptyDir ELSE cache
       ELSE UNCHANGED cache
    /\ Exit(0)
    /\ UNCHANGED <<config, servers, configFile>>
    /\ UNCHANGED CallVars

\* lines 1033-1039: show_config, update_config, or the hint.
MainConfig ==
    /\ mainPc = "dispatch"
    /\ argv.command = "config"
    /\ handled' = "config " \o argv.action
    /\ CASE argv.action = "show" ->
              /\ Exit(0)
              /\ UNCHANGED <<config, configFile>>
         [] argv.action = "set" ->
              \E writable \in BOOLEAN :
                LET r == update_config(config, configFile, argv.key, argv.value, writable)
                IN /\ config' = r.config
                   /\ configFile' = r.file
                   /\ Exit(IF r.raised THEN 1 ELSE 0)
         [] OTHER ->
              /\ Exit(0)
              /\ UNCHANGED <<config, configFile>>
    /\ UNCHANGED <<servers, cache>>
    /\ UNCHANGED CallVars

\* The called method has returned (main returns, status 0) or raised (lines
\* 1044-1046: the exception is printed, sys.exit(1)).
MainReturn ==
    /\ mainPc = "call"
    /\ pc \in {"done", "failed"}
    /\ Exit(IF pc = "done" THEN 0 ELSE 1)
    /\ UNCHANGED <<config, servers, cache, configFile, handled>>
    /\ UNCHANGED CallVars

\* lines 1041-1043: Ctrl-C while the method runs.  KeyboardInterrupt passes
\* every `except Exception` on its way up; the with block of line 435 removes
\* the workspace.
MainInterrupt ==
    /\ mainPc = "call"
    /\ pc \notin {"done", "failed"}
    /\ pc' = "failed"
    /\ error' = <<"KeyboardInterrupt">>
    /\ workspace' = FALSE
    /\ clock' = 0
    /\ Exit(1)
    /\ UNCHANGED <<config, servers, cache, configFile, handled>>
    /\ UNCHANGED <<op, args, urlIdx, jarPath, tasks, log, accepted, failures,
                   servers0, cache0, retval, warnings>>

\* The disk before main starts: config.json in any of its kinds (an object
\* may lack keys), no creator yet.
ConfigFilePriors ==
    {[kind |-> k, text |-> EmptyDir] : k \in ConfigKinds \ {"object"}}
    \cup {ConfigObject(default_config),
          [kind |-> "object", text |-> [x \in {"quick_mode"} |-> "true"]]}

InitMain ==
    /\ config = EmptyDir
    /\ servers \in {EmptyDir, [n \in Names |-> OldServer]}
    /\ cache \in {EmptyDir,
                  [x \in {SpigotJar("1.20.4")} |-> CacheFile("old", MinJarSize + 1, FALSE, 0)]}
    /\ servers0 = servers
    /\ cache0 = cache
    /\ InitLocals
    /\ configFile \in ConfigFilePriors
    /\ argv \in CommandLines
    /\ mainPc = "construct"
    /\ exitCode = -1
    /\ uncaught = FALSE
    /\ handled = ""

MainSteps ==
    \/ MainConstruct
    \/ MainParse
    \/ MainHelp
    \/ MainCreate
    \/ MainQuery
    \/ MainRemove
    \/ MainCache
    \/ MainConfig
    \/ MainReturn
    \/ MainInterrupt

\* main passes no force_overwrite (lines 969-980), so the steps of that
\* branch are not among its steps.
NextMain ==
    \/ MainSteps
    \/ ProvisionSteps
    \/ AcquireSteps
    \/ RemoveServer

SpecMain == InitMain /\ [][NextMain]_vars

\* =================================================================== claims
Returned == pc \in {"done", "failed"}
ArtifactKey == jar_name(args.type, args.version)
IsPrefix(s, t) == Len(s) <= Len(t) /\ \A i \in 1..Len(s) : s[i] = t[i]

\* ----------------------------------------------------------------------- C1
\* C1: create_server without the overwrite flag on an existing servers_dir/name
\* fails and leaves the directory and its contents unchanged; on a name that
\* does not exist it fails only if the artifact acquisition fails.
C1_NoOverwriteKeepsExisting ==
    (op = "create_server" /\ ~args.force_overwrite) =>
        IF Exists(servers0, args.name)
        THEN servers = servers0 /\ pc # "done"
        ELSE pc = "failed" => jarPath = ""

\* ----------------------------------------------------------------------- C2
\* C2: create_server with force_overwrite on an existing directory fails only
\* if the directory still exists after the removal (or the acquisition fails):
\* once the removal has deleted the directory the call goes on to CREATE.
C2_OverwriteFailsOnlyIfDirRemains ==
    (op = "create_server" /\ args.force_overwrite /\ Exists(servers0, args.name)
        /\ pc = "failed")
    => (Exists(servers, args.name) \/ failures # <<>>
            \/ error = <<"Unknown server type">>)

\* ----------------------------------------------------------------------- C3
ValidCachedAtStart ==
    /\ Exists(cache0, ArtifactKey)
    /\ ~cache0[ArtifactKey].partial
    /\ cache0[ArtifactKey].size > MinJarSize

\* C3: with force_rebuild False and a valid artifact for (type, version) in
\* the cache, the resolution makes no network request, starts no subprocess
\* and returns the cached file.
C3_CacheHitNoNetwork ==
    (op \in {"build_spigot", "download_bukkit", "download_vanilla"}
        /\ ~args.force_rebuild /\ ValidCachedAtStart)
    => /\ log = <<>>
       /\ cache = cache0
       /\ pc = "done" => jarPath = ArtifactKey

\* ----------------------------------------------------------------------- C4
\* The strategies of a spigot acquisition in their order; the Java check and
\* the BuildTools download prepare the build strategy.
BuildRun == "java -jar BuildTools.jar"
BuildPreparation == {"java -version", "GET BuildTools.jar"}
IsStrategy(e) == e \notin BuildPreparation
StrategyList ==
    (IF use_prebuilt_spigot(config) THEN all_urls(args.version) ELSE <<>>) \o <<BuildRun>>

\* C4: the spigot strategies (the pre-built URLs in list order, then the
\* BuildTools build) are tried in that order, and once one has yielded a
\* validated artifact nothing more is requested or started and the call
\* returns that artifact.
C4_FirstSuccessStops ==
    op = "build_spigot" =>
        /\ IsPrefix(SelectSeq(log, IsStrategy), StrategyList)
        /\ accepted # 0 =>
              /\ accepted = Len(log)
              /\ pc = "done"
              /\ jarPath = SpigotJar(args.version)
              /\ Exists(cache, jarPath) /\ cache[jarPath].payload = "new"

\* C4 witness: the second URL yielded the artifact after the first had failed.
C4_Witness ==
    /\ op = "build_spigot"
    /\ pc = "done"
    /\ accepted = 2
    /\ Len(failures) = 1
    /\ Len(all_urls(args.version)) = 4

\* ----------------------------------------------------------------------- C5
\* C5: when every spigot strategy fails, the error raised carries one failure
\* entry per strategy attempted, in the order attempted.
C5_AggregateError ==
    (op = "build_spigot" /\ pc = "failed") => error = failures

\* ----------------------------------------------------------------------- C6
\* C6: after a successful create_server the target directory holds exactly the
\* six scaffold files, the three subdirectories and the copied jar.
C6_ExactScaffold ==
    (op = "create_server" /\ pc = "done") =>
        DOMAIN servers[args.name] = ScaffoldFiles \cup ScaffoldDirs \cup {ArtifactKey}

\* ----------------------------------------------------------------------- C7
\* C7: in both output modes the wait for the BuildTools subprocess ends when
\* the timeout has elapsed: the call is never still waiting after it.
C7_TimeoutEnforced ==
    pc = "build_wait" => clock <= BuildTimeout

\* ----------------------------------------------------------------------- C8
\* C8: once a build_spigot_optimized call has returned or raised, the build
\* workspace no longer exists, and it exists only while the subprocess runs.
C8_WorkspaceRemoved ==
    /\ Returned => ~workspace
    /\ workspace => pc = "build_wait"

\* C8 witness: the build timed out and the call has raised.
C8_Witness ==
    /\ op = "build_spigot"
    /\ pc = "failed"
    /\ error = <<"BuildTools timeout - build took too long">>
    /\ ~workspace

\* ----------------------------------------------------------------------- C9
\* C9: after a call has returned or raised, no partially written file is left
\* under a final cache key.
C9_NoPartialUnderFinalKey ==
    Returned =>
        \A k \in DOMAIN cache : k \in ArtifactKeys \cup {BuildToolsJar} => ~cache[k].partial

\* ---------------------------------------------------------------------- C10
\* download_buildtools went to the network; what a completed download leaves;
\* the binary (else the backup) that was there before the call.
Refreshed == op = "download_buildtools" /\ log # <<>>
NewToolchain == CacheFile("new", MinJarSize + 1, FALSE, 0)
PreviousToolchain ==
    IF Exists(cache0, BuildToolsJar) THEN cache0[BuildToolsJar] ELSE cache0[BuildToolsBackup]

\* C10: a refresh of BuildTools.jar keeps the existing binary under the backup
\* name; if the download fails the call returns with BuildTools.jar holding
\* exactly the previous binary (or the backup, when only that existed), and
\* it raises only when neither a previous binary nor a backup existed.
C10_RefreshAllOrNothing ==
    /\ (Refreshed /\ pc = "done") =>
          /\ Exists(cache, BuildToolsJar)
          /\ IF cache[BuildToolsJar] = NewToolchain
             THEN Exists(cache0, BuildToolsJar) =>
                     /\ Exists(cache, BuildToolsBackup)
                     /\ cache[BuildToolsBackup] = cache0[BuildToolsJar]
             ELSE /\ Exists(cache0, BuildToolsJar) \/ Exists(cache0, BuildToolsBackup)
                  /\ cache[BuildToolsJar] = PreviousToolchain
    /\ (op = "download_buildtools" /\ pc = "failed") =>
          /\ ~Exists(cache0, BuildToolsJar)
          /\ ~Exists(cache0, BuildToolsBackup)

\* C10 witness: a stale binary was there, the download failed, and the call
\* returned with the binary put back from the backup.
C10_Witness ==
    /\ Refreshed
    /\ pc = "done"
    /\ Exists(cache0, BuildToolsJar)
    /\ cache[BuildToolsJar] = cache0[BuildToolsJar]
    /\ ~Exists(cache, BuildToolsBackup)

\* ---------------------------------------------------------------------- C11
\* The value `config set key value` is to store: the parsed JSON value of the
\* string when it parses, the string itself otherwise.
StructuredValue(x) == IF json_loads(x).ok THEN json_loads(x).value ELSE JStr(x)

\* C11: `config set` and `config show` are both sub-commands main runs; after
\* `config set key value` the value config show prints and the value a later
\* load_config loads are the structured value of the string.
C11_ConfigRoundTrip ==
    (mainPc = "exited" /\ ~uncaught /\ argv.command = "config") =>
        /\ argv.action \in {"set", "show"} => handled = "config " \o argv.action
        /\ (argv.action = "set" /\ exitCode = 0) =>
              /\ json_loads(show_config(config)[argv.key]).value
                    = StructuredValue(argv.value)
              /\ load_config(configFile, TRUE).config[argv.key]
                    = StructuredValue(argv.value)

\* ---------------------------------------------------------------------- C12
BuildToolsAge == cache[BuildToolsJar].age
ConfiguredInterval == config["buildtools_update_interval"].n
EffectiveInterval ==
    IF quick_mode(config) THEN QuickModeFactor * ConfiguredInterval
    ELSE ConfiguredInterval
StaleIn(quick) ==
    should_update_buildtools(cache, [config EXCEPT !.quick_mode = JBool(quick)])
StalenessChecked ==
    /\ op = "should_update_buildtools"
    /\ pc = "done"
    /\ Exists(cache, BuildToolsJar)

\* C12 as stated: for every age and every configured interval the result is
\* age > effective interval, and a toolchain entry fresh in normal mode is
\* fresh in quick mode (one stale in quick mode is stale in normal mode).
C12_MonotonicEveryInterval ==
    StalenessChecked =>
        /\ (retval = "True") <=> (BuildToolsAge > EffectiveInterval)
        /\ ~StaleIn(FALSE) => ~StaleIn(TRUE)

\* C12 amended: the same for every configured interval that is not negative.
C12_MonotonicNonNegative ==
    (StalenessChecked /\ ConfiguredInterval >= 0) =>
        /\ (retval = "True") <=> (BuildToolsAge > EffectiveInterval)
        /\ ~StaleIn(FALSE) => ~StaleIn(TRUE)

\* C12 witness: in quick mode, an entry older than the configured interval
\* and not older than 7 times it was found fresh.
C12_Witness ==
    /\ StalenessChecked
    /\ quick_mode(config)
    /\ ConfiguredInterval > 0
    /\ BuildToolsAge > ConfiguredInterval
    /\ retval = "False"

\* ---------------------------------------------------------------------- C13
\* C13: main ends without an uncaught exception; with status 1 when the
\* command failed and with status 0 after a successful create.
C13_FailuresExitOne ==
    mainPc = "exited" =>
        /\ ~uncaught
        /\ pc = "failed" => exitCode = 1
        /\ (handled = "create" /\ pc = "done") => exitCode = 0

\* ---------------------------------------------------------------------- C14
\* C14: after a successful create_server, start.sh and start.bat run the jar
\* that create_server copied into the directory.
C14_ScriptRunsCopiedJar ==
    (op = "create_server" /\ pc = "done" /\ tasks["start_script"] = "ok") =>
        \A f \in {"start.sh", "start.bat"} :
            /\ servers[args.name][f].ref = ArtifactKey
            /\ Exists(servers[args.name], servers[args.name][f].ref)

\* ---------------------------------------------------------------------- C15
\* The requests and processes that are download or build strategies (the
\* Java check, the BuildTools download, the HEAD request and the manifest
\* lookup are not).
NotAStrategy ==
    BuildPreparation \cup {"HEAD craftbukkit", "GET version_manifest"}
StrategyInvoked == \E i \in 1..Len(log) : log[i] \notin NotAStrategy

\* C15: with force_rebuild, for each server type, an artifact is returned
\* only after a download or build strategy was invoked, and it is not the
\* file the cache held before the call.
C15_ForceRebuildBypassesCache ==
    (op = "create_server" /\ args.force_rebuild /\ args.type \in ServerTypes
        /\ jarPath # "")
    => /\ StrategyInvoked
       /\ Exists(cache0, jarPath) => cache[jarPath] # cache0[jarPath]

\* ---------------------------------------------------------------------- C16
SmallCachedAtStart ==
    /\ Exists(cache0, ArtifactKey)
    /\ cache0[ArtifactKey].size <= MinJarSize

\* C16: without force_rebuild, a cached artifact of at most 1 MiB is never
\* what the resolution returns: a strategy is invoked and the file replaced.
C16_SmallCachedIsCorrupt ==
    (op \in {"build_spigot", "download_bukkit", "download_vanilla"}
        /\ ~args.force_rebuild /\ SmallCachedAtStart /\ pc = "done")
    => /\ StrategyInvoked
       /\ cache[jarPath] # cache0[ArtifactKey]

\* ---------------------------------------------------------------------- C17
\* C17: remove_server changes the servers directory only by deleting
\* servers_dir/name, and only with force or the answer y/Y; for an absent
\* server it returns False; it returns True only if the directory is gone.
C17_RemoveServerFrame ==
    (op = "remove_server" /\ pc = "done") =>
        /\ servers # servers0 =>
              /\ servers = Unlink(servers0, args.name)
              /\ args.force \/ (log # <<>> /\ log[1] \in {"y", "Y"})
        /\ ~Exists(servers0, args.name) => (retval = "False" /\ servers = servers0)
        /\ (~args.force /\ log # <<>> /\ log[1] \notin {"y", "Y"}) =>
              (retval = "False" /\ servers = servers0)
        /\ retval = "True" => ~Exists(servers, args.name)

\* ---------------------------------------------------------------------- C18
IsPrebuiltUrl(e) == e \notin BuildPreparation \cup {BuildRun}

\* C18: a pre-built candidate is accepted only if it is larger than 1 MiB;
\* between two URLs, and once every URL has failed, no file is left under the
\* spigot cache key.
C18_PrebuiltSizeCheck ==
    op = "build_spigot" =>
        LET key == SpigotJar(args.version)
        IN /\ (accepted # 0 /\ IsPrebuiltUrl(log[accepted])) =>
                 /\ pc = "done" /\ jarPath = key
                 /\ Exists(cache, key)
                 /\ cache[key].size > MinJarSize
                 /\ ~cache[key].partial
           /\ (pc \in {"prebuilt", "java_check"} /\ log # <<>>) => ~Exists(cache, key)

\* C18 witness: every URL was tried and rejected, and the jar the cache held
\* before the call is gone with the candidates.
C18_Witness ==
    /\ op = "build_spigot"
    /\ pc = "java_check"
    /\ Len(log) = 4
    /\ Exists(cache0, SpigotJar(args.version))
    /\ ~Exists(cache, SpigotJar(args.version))

\* ---------------------------------------------------------------------- C19
\* The order the pre-built URLs are to be tried in.
PreferredUrls(version) ==
    (IF version \in KnownPrebuiltVersions THEN <<"known:cdn.getbukkit.org">> ELSE <<>>)
    \o <<"download.getbukkit.org", "cdn.getbukkit.org", "hub.spigotmc.org/browse">>
BuildPathEntered ==
    \/ pc \in {"buildtools", "build_start", "build_wait"}
    \/ \E i \in 1..Len(log) : ~IsPrebuiltUrl(log[i])

\* C19: the pre-built URLs are requested in the preferred order, and the
\* Java check, the BuildTools download and the build start only after each
\* of them was requested and rejected, or with use_prebuilt_spigot off, in
\* which case no URL is requested.
C19_PrebuiltBeforeBuild ==
    op = "build_spigot" =>
        LET urls == PreferredUrls(args.version)
            n == Len(urls)
        IN /\ IsPrefix(SelectSeq(log, IsPrebuiltUrl), urls)
           /\ ~use_prebuilt_spigot(config) => SelectSeq(log, IsPrebuiltUrl) = <<>>
           /\ (BuildPathEntered /\ use_prebuilt_spigot(config)) =>
                 /\ Len(log) >= n /\ SubSeq(log, 1, n) = urls
                 /\ Len(failures) >= n /\ SubSeq(failures, 1, n) = urls
                 /\ accepted = 0 \/ accepted > n

\* C19 witness: the four URLs of a known version were rejected and the Java
\* check came fifth.
C19_Witness ==
    /\ op = "build_spigot"
    /\ use_prebuilt_spigot(config)
    /\ Len(log) >= 5
    /\ log[5] = "java -version"
    /\ Len(failures) >= 4

\* ---------------------------------------------------------------------- C20
\* What each scaffold task leaves in the directory.
TaskEntries(t) ==
    CASE t = "server_properties" -> {"server.properties"}
      [] t = "eula" -> {"eula.txt"}
      [] t = "start_script" -> {"start.sh", "start.bat"}
      [] t = "server_info" -> {"server_info.json"}
      [] t = "readme" -> {"README.md"}
      [] OTHER -> ScaffoldDirs

\* C20: create_files_parallel returns only when all six tasks have finished;
\* it never raises; every task that did not fail has run to completion
\* whatever the others did; each failure is printed as a warning.
C20_ScaffoldTolerant ==
    op = "create_server" =>
        /\ pc = "done" =>
              /\ \A t \in TaskNames : tasks[t] \in {"ok", "failed"}
              /\ warnings = {t \in TaskNames : tasks[t] = "failed"}
        /\ pc = "failed" => \A t \in TaskNames : tasks[t] = "idle"
        /\ \A t \in TaskNames :
              tasks[t] = "ok" => TaskEntries(t) \subseteq DOMAIN servers[args.name]

\* C20 witness: the call returned after two tasks had failed and the other
\* four had written their entries.
C20_Witness ==
    /\ op = "create_server"
    /\ pc = "done"
    /\ tasks["eula"] = "failed"
    /\ tasks["start_script"] = "failed"
    /\ \A t \in TaskNames \ {"eula", "start_script"} : tasks[t] = "ok"
    /\ warnings = {"eula", "start_script"}

\* ---------------------------------------------------------------------- C21
RemovalMethods ==
    <<"cmd /c rmdir", "shutil.rmtree", "shutil.rmtree ignore_errors">>

\* C21: fast_rmtree tries the fast path first and falls back to the generic
\* delete whenever the fast path failed or left the directory or a residue
\* behind; it returns normally only if the path no longer exists, and it
\* raises when all methods have failed.
C21_ReturnsOnlyWhenGone ==
    op = "fast_rmtree" =>
        /\ IsPrefix(log, RemovalMethods) \/ IsPrefix(log, Tail(RemovalMethods))
        /\ pc = "done" => ~Exists(servers, args.name)
        /\ pc = "failed" =>
              /\ Exists(servers, args.name)
              /\ log # <<>> /\ log[Len(log)] = "shutil.rmtree ignore_errors"

\* ---------------------------------------------------------------------- C22
\* C22: load_config never fails because of the file's content.  For an
\* absent, unreadable or corrupt file (anything but a readable object) it
\* returns exactly the default configuration and persists it; for a readable
\* object it returns that object with every stored value preserved and every
\* missing default key added; so what it returns always has all default keys.
C22_LoadedConfigComplete ==
    [][op = "load_config" =>
         /\ pc' = "failed" => pc = "write"
         /\ pc' # "done" => configFile' = configFile
         /\ pc' = "done" =>
              /\ retval' = "dict"
              /\ DOMAIN default_config \subseteq DOMAIN config'
              /\ IF configFile.kind = "object"
                 THEN /\ configFile' = configFile
                      /\ DOMAIN config' = DOMAIN configFile.text \cup DOMAIN default_config
                      /\ \A k \in DOMAIN configFile.text :
                            config'[k] = json_loads(configFile.text[k]).value
                      /\ \A k \in DOMAIN default_config \ DOMAIN configFile.text :
                            config'[k] = default_config[k]
                 ELSE /\ config' = default_config
                      /\ configFile' = ConfigObject(default_config)]_vars

\* ---------------------------------------------------------------------- C23
\* The call raised in the acquisition of lines 764-781: a strategy failed or
\* the server type is not known.
AcquisitionFailed ==
    /\ op = "create_server"
    /\ pc = "failed"
    /\ failures # <<>> \/ error = <<"Unknown server type">>

\* C23: a create_server call that fails during the artifact acquisition
\* leaves the servers directory as it was before the call: no new, empty or
\* partially populated servers_dir/name exists after the failure.
C23_FailedAcquisitionLeavesNoDir ==
    AcquisitionFailed =>
        /\ servers = servers0
        /\ ~Exists(servers0, args.name) => ~Exists(servers, args.name)

\* ---------------------------------------------------------------------- C24
\* C24: whenever create_server returns successfully, the artifact jar in the
\* target directory has the content of the artifact the acquisition returned
\* for this call (the current cache entry), whatever the directory held
\* before, a jar of the same name included.
C24_JarIsResolvedArtifact ==
    (op = "create_server" /\ pc = "done") =>
        /\ Exists(cache, jarPath)
        /\ Exists(servers[args.name], ArtifactKey)
        /\ servers[args.name][ArtifactKey].kind = "jar"
        /\ servers[args.name][ArtifactKey].gen = cache[jarPath].payload
====
